---------------------------- MODULE Spec2Model ----------------------------
(***************************************************************************)
(* A model of servicenow.js: the Client constructor, its seven methods,    *)
(* and the response handling of restCallbackHandler and                    *)
(* jsonServiceErrorProcessor.                                              *)
(*                                                                         *)
(* JavaScript values are tagged records, so that values of different       *)
(* JavaScript types can be compared.  A JavaScript string is a TLA+        *)
(* string; the strings that go through percent-encoding (query, sysid) are *)
(* tuples of one-character strings, so that the encoding is computed       *)
(* character by character.                                                 *)
(***************************************************************************)
EXTENDS Integers, Sequences, FiniteSets

VARIABLES client, calls, transport, received

vars == <<client, calls, transport, received>>

---------------------------------------------------------------------------
(* Bounds of the model.                                                    *)

\* Method invocations made on the Client in a behaviour of Spec.
MaxCalls == 2

\* Method invocations made on the Client in a behaviour of SpecResponses.
MaxResponseCalls == 1

---------------------------------------------------------------------------
(* JavaScript values.                                                      *)

Undefined == [t |-> "undefined"]

Null == [t |-> "null"]

Str(s) == [t |-> "string", s |-> s]

Num(n) == [t |-> "number", n |-> n]

Bool(b) == [t |-> "boolean", b |-> b]

\* A string given by its characters (a tuple of one-character strings): the
\* form of the strings that querystring.stringify percent-encodes.
Text(chars) == [t |-> "text", chars |-> chars]

Arr(a) == [t |-> "array", a |-> a]

\* An object is the sequence of its <<key, value>> members, in insertion order.
Obj(kv) == [t |-> "object", kv |-> kv]

\* An Error object as the transport reports it.
Err(code) == [t |-> "Error", code |-> code]

\* The response metadata object the transport hands to its callback.
Response(status) == [t |-> "response", statusCode |-> status]

\* ToBoolean: what `if(v)` and `v ? a : b` test.
Truthy(v) ==
    CASE v.t = "undefined" -> FALSE
      [] v.t = "null" -> FALSE
      [] v.t = "string" -> v.s # ""
      [] v.t = "text" -> v.chars # <<>>
      [] v.t = "number" -> v.n # 0
      [] v.t = "boolean" -> v.b
      [] OTHER -> TRUE

\* The typeof operator.
TypeOf(v) ==
    CASE v.t = "undefined" -> "undefined"
      [] v.t = "string" -> "string"
      [] v.t = "text" -> "string"
      [] v.t = "number" -> "number"
      [] v.t = "boolean" -> "boolean"
      [] OTHER -> "object"

\* Reading a property of null or undefined throws a TypeError.
ThrowsOnGet(v) == v.t \in {"undefined", "null"}

Digit(d) ==
    CASE d = 0 -> "0" [] d = 1 -> "1" [] d = 2 -> "2" [] d = 3 -> "3"
      [] d = 4 -> "4" [] d = 5 -> "5" [] d = 6 -> "6" [] d = 7 -> "7"
      [] d = 8 -> "8" [] d = 9 -> "9"

RECURSIVE NumberToString(_)
\* Number.prototype.toString of a natural number.
NumberToString(n) == IF n < 10 THEN Digit(n) ELSE NumberToString(n \div 10) \o Digit(n % 10)

\* The members of object o named k.
Members(o, k) == SelectSeq(o.kv, LAMBDA p : p[1] = k)

\* The array index a property key names, or -1.
IndexOf(v, k) ==
    LET hit == {i \in 1..Len(v.a) : NumberToString(i - 1) = k}
    IN  IF hit = {} THEN -1 ELSE CHOOSE i \in hit : TRUE

\* The property read v.k (v[k]) for a v that is neither null nor undefined:
\* an own member of an object, an element of an array, and undefined on a
\* string, number or boolean for every key that is not built in.
Get(v, k) ==
    CASE v.t = "object" ->
            IF Members(v, k) = <<>> THEN Undefined
            ELSE Members(v, k)[Len(Members(v, k))][2]
      [] v.t = "array" ->
            IF IndexOf(v, k) = -1 THEN Undefined ELSE v.a[IndexOf(v, k)]
      [] v.t = "Error" -> IF k = "code" THEN Str(v.code) ELSE Undefined
      [] v.t = "response" -> IF k = "statusCode" THEN Num(v.statusCode) ELSE Undefined
      [] OTHER -> Undefined

\* The keys `for(var i in v)` enumerates, each a string: the indices of an
\* array, the member names of an object, the indices of a string, and
\* nothing for a number or a boolean.
ForInKeys(v) ==
    CASE v.t = "array" -> [i \in 1..Len(v.a) |-> Str(NumberToString(i - 1))]
      [] v.t = "string" -> [i \in 1..Len(v.s) |-> Str(NumberToString(i - 1))]
      [] v.t = "object" -> [i \in 1..Len(v.kv) |-> Str(v.kv[i][1])]
      [] OTHER -> <<>>

---------------------------------------------------------------------------
(* JSON.stringify and JSON.parse.                                          *)

\* A quoted JSON string.  The strings of the model hold no quote, backslash
\* or control character, so no character is escaped.
Quote(s) == "\"" \o s \o "\""

RECURSIVE Serialize(_), SerializeElements(_), SerializeMembers(_)
\* The JSON text of a value; undefined inside an array is written null.
Serialize(v) ==
    CASE v.t = "string" -> Quote(v.s)
      [] v.t = "number" -> NumberToString(v.n)
      [] v.t = "boolean" -> IF v.b THEN "true" ELSE "false"
      [] v.t = "array" -> "[" \o SerializeElements(v.a) \o "]"
      [] v.t = "object" ->
            "{" \o SerializeMembers(SelectSeq(v.kv, LAMBDA p : p[2].t # "undefined")) \o "}"
      [] v.t = "Error" -> "{}"
      [] OTHER -> "null"

SerializeElements(a) ==
    IF a = <<>> THEN ""
    ELSE IF Len(a) = 1 THEN Serialize(a[1])
    ELSE Serialize(a[1]) \o "," \o SerializeElements(Tail(a))

\* Members whose value is undefined are left out (filtered by the caller).
SerializeMembers(kv) ==
    IF kv = <<>> THEN ""
    ELSE IF Len(kv) = 1 THEN Quote(kv[1][1]) \o ":" \o Serialize(kv[1][2])
    ELSE Quote(kv[1][1]) \o ":" \o Serialize(kv[1][2]) \o "," \o SerializeMembers(Tail(kv))

\* JSON.stringify(v): a string, or undefined for undefined.
JSONstringify(v) == IF v.t = "undefined" THEN Undefined ELSE Str(Serialize(v))

\* The documents the remote service answers with: objects with a records
\* collection, objects with an error field, bare records and arrays, and
\* the JSON scalars.
ErrorObject == Obj(<< <<"message", Str("m")>>, <<"reason", Str("r")>> >>)

OtherErrorObject == Obj(<< <<"message", Str("n")>>, <<"reason", Str("q")>> >>)

GoodRecord == Obj(<< <<"short_description", Str("x")>> >>)

StoredRecord == Obj(<< <<"sys_id", Str("abc123")>>, <<"state", Str("1")>> >>)

FailedRecord == Obj(<< <<"__error", ErrorObject>> >>)

OtherFailedRecord == Obj(<< <<"short_description", Str("y")>>, <<"__error", OtherErrorObject>> >>)

Records(rs) == Obj(<< <<"records", Arr(rs)>> >>)

JsonDocs ==
    { Records(<<>>), Records(<<GoodRecord>>), Records(<<StoredRecord, GoodRecord>>),
      Records(<<FailedRecord>>), Records(<<GoodRecord, FailedRecord>>),
      Records(<<FailedRecord, OtherFailedRecord>>),
      Obj(<< <<"error", ErrorObject>> >>), Obj(<< <<"error", Str("denied")>> >>),
      Obj(<< <<"error", Null>> >>), Obj(<< <<"error", Str("")>> >>),
      Obj(<< <<"error", ErrorObject>>, <<"records", Arr(<<GoodRecord>>)>> >>),
      Obj(<< <<"records", Str("none")>> >>),
      StoredRecord, Arr(<<StoredRecord>>), Arr(<<>>),
      Null, Num(0), Num(42), Bool(FALSE), Str("abc123") }

\* The documents the methods send as bodies.
RequestDocs ==
    { GoodRecord, Records(<<GoodRecord, StoredRecord>>), Obj(<<>>),
      Obj(<< <<"sysparm_sys_id", Str("abc123")>> >>),
      Obj(<< <<"sysparm_sys_id", Str("def456")>> >>) }

AllDocs == JsonDocs \cup RequestDocs

\* Texts that are no JSON document.
MalformedTexts == {"", "server exploded", "<html>busy</html>", "{\"records\":["}

\* The JSON text of each document.
JsonText == [v \in AllDocs |-> Serialize(v)]

\* JSON.parse(body): the document whose text body is, or a SyntaxError.
\* Defined for the texts of AllDocs and of MalformedTexts; undefined is
\* parsed as the text "undefined", which is no JSON document.
JSONparse(body) ==
    IF body.t = "string" /\ \E v \in AllDocs : JsonText[v] = body.s
    THEN [ok |-> TRUE, value |-> CHOOSE v \in AllDocs : JsonText[v] = body.s]
    ELSE [ok |-> FALSE, value |-> Err("SyntaxError")]

---------------------------------------------------------------------------
(* The response handling.                                                  *)

\* The status code of a successful exchange.
HTTP_OK == 200

\* How a function ends: it returns a value or throws one; parses counts its
\* calls of JSON.parse.
Return(v, n) == [kind |-> "return", value |-> v, parses |-> n]

Throw(e, n) == [kind |-> "throw", value |-> e, parses |-> n]

RECURSIVE CollectErrors(_)
\* The loop of jsonServiceErrorProcessor over the keys of o.records: the
\* __error property is read from the key i, a string, not from the entry.
CollectErrors(keys) ==
    IF keys = <<>> THEN <<>>
    ELSE (IF Truthy(Get(keys[1], "__error")) THEN <<Get(keys[1], "__error")>> ELSE <<>>)
         \o CollectErrors(Tail(keys))

\* jsonServiceErrorProcessor after its two early returns.
ServiceError(body) ==
    LET p == JSONparse(body)
        o == p.value
    IN  IF ~p.ok THEN Throw(p.value, 1)
        ELSE IF ThrowsOnGet(o) THEN Throw(Err("TypeError"), 1)
        ELSE IF Truthy(Get(o, "error")) THEN Return(Get(o, "error"), 1)
        ELSE IF Truthy(Get(o, "records"))
             THEN LET errors == CollectErrors(ForInKeys(Get(o, "records")))
                  IN  IF Len(errors) > 0 THEN Return(Arr(errors), 1) ELSE Return(Null, 1)
        ELSE Return(Null, 1)

\* A variant that classifies the status before the transport error.
jsonServiceErrorProcessor_StatusFirst(error, response, body) ==
    IF ThrowsOnGet(response) THEN Throw(Err("TypeError"), 0)
    ELSE IF Get(response, "statusCode") # Num(HTTP_OK) THEN Return(body, 0)
    ELSE IF Truthy(error) THEN Return(error, 0)
    ELSE ServiceError(body)

jsonServiceErrorProcessor(error, response, body) ==
    IF Truthy(error) THEN Return(error, 0)
    ELSE IF ThrowsOnGet(response) THEN Throw(Err("TypeError"), 0)
    ELSE IF Get(response, "statusCode") # Num(HTTP_OK) THEN Return(body, 0)
    ELSE ServiceError(body)

\* One invocation of a completion handler: callback(error) leaves result
\* undefined.
Invocation(callback, error, result) ==
    [callback |-> callback, error |-> error, result |-> result]

\* What a run of restCallbackHandler does: the invocations of the
\* completion handler it makes, the exception it lets escape (undefined
\* when none), and the number of times it had the body parsed.
Outcome(invocations, thrown, parses) ==
    [invocations |-> invocations, thrown |-> thrown, parses |-> parses]

\* A variant without the return after callback(error).
restCallbackHandler_NoReturn(err, response, body, callback) ==
    LET e == jsonServiceErrorProcessor(err, response, body)
        error == e.value
        p == JSONparse(body)
        first == IF Truthy(error) THEN <<Invocation(callback, error, Undefined)>> ELSE <<>>
    IN  IF e.kind = "throw" THEN Outcome(<<>>, e.value, e.parses)
        ELSE IF ~p.ok THEN Outcome(first, p.value, e.parses + 1)
        ELSE Outcome(first \o <<Invocation(callback, Null, p.value)>>, Undefined, e.parses + 1)

restCallbackHandler(err, response, body, callback) ==
    LET e == jsonServiceErrorProcessor(err, response, body)
        error == e.value
        p == JSONparse(body)
    IN  IF e.kind = "throw" THEN Outcome(<<>>, e.value, e.parses)
        ELSE IF Truthy(error)
             THEN Outcome(<<Invocation(callback, error, Undefined)>>, Undefined, e.parses)
        ELSE IF ~p.ok THEN Outcome(<<>>, p.value, e.parses + 1)
        ELSE Outcome(<<Invocation(callback, Null, p.value)>>, Undefined, e.parses + 1)

---------------------------------------------------------------------------
(* querystring.stringify.                                                  *)

\* The characters querystring.escape leaves as they are.
Unreserved ==
    { "A", "B", "C", "D", "E", "F", "G", "H", "I", "J", "K", "L", "M",
      "N", "O", "P", "Q", "R", "S", "T", "U", "V", "W", "X", "Y", "Z",
      "a", "b", "c", "d", "e", "f", "g", "h", "i", "j", "k", "l", "m",
      "n", "o", "p", "q", "r", "s", "t", "u", "v", "w", "x", "y", "z",
      "0", "1", "2", "3", "4", "5", "6", "7", "8", "9",
      "-", "_", ".", "!", "~", "*", "'", "(", ")" }

\* The percent-encoding of the other characters of the model's strings.
PercentCode(c) ==
    CASE c = "=" -> "%3D" [] c = "&" -> "%26" [] c = "^" -> "%5E"
      [] c = " " -> "%20" [] c = "%" -> "%25" [] c = "/" -> "%2F"

RECURSIVE Escape(_)
\* querystring.escape, character by character.
Escape(chars) ==
    IF chars = <<>> THEN ""
    ELSE (IF chars[1] \in Unreserved THEN chars[1] ELSE PercentCode(chars[1]))
         \o Escape(Tail(chars))

\* The encoded value of one member: a string is escaped, a boolean or a
\* number is written out, anything else gives the empty string.  A string
\* literal of the source (a Str here) holds unreserved characters only.
EncodeValue(v) ==
    CASE v.t = "text" -> Escape(v.chars)
      [] v.t = "string" -> v.s
      [] v.t = "boolean" -> IF v.b THEN "true" ELSE "false"
      [] v.t = "number" -> NumberToString(v.n)
      [] OTHER -> ""

\* querystring.stringify(obj) as the sequence of its <<key, encoded value>>
\* pairs; the keys of the source are literals of unreserved characters.
querystring_stringify(obj) ==
    [i \in 1..Len(obj.kv) |-> <<obj.kv[i][1], EncodeValue(obj.kv[i][2])>>]

RECURSIVE QueryText(_)
\* The pairs joined as key=value with & between them.
QueryText(params) ==
    IF params = <<>> THEN ""
    ELSE IF Len(params) = 1 THEN params[1][1] \o "=" \o params[1][2]
    ELSE params[1][1] \o "=" \o params[1][2] \o "&" \o QueryText(Tail(params))

---------------------------------------------------------------------------
(* The Client and its methods.                                             *)

\* new Client(config).
Client(config) ==
    [ instance |-> config.instance,
      config |-> config,
      request |-> [ auth |-> [ user |-> config.username, pass |-> config.password,
                               sendImmediately |-> TRUE ],
                    headers |-> [ ContentType |-> "application/json" ] ] ]

\* One call of the transport, this.request.get or this.request.post: the
\* verb, the url (with the encoded parameters, kept also as pairs), the
\* body option, the defaults of the transport handle, and the completion
\* handler the closure passed to the transport holds.
HttpCall(self, verb, url, params, body, callback) ==
    [ verb |-> verb, url |-> url \o QueryText(params), query |-> params, body |-> body,
      auth |-> self.request.auth, headers |-> self.request.headers,
      callback |-> callback ]

\* The url every method starts from.
BaseUrl(self, table) == self.instance \o "/" \o table \o ".do?JSONv2=&"

\* Each method below gives the transport calls one invocation makes.
Client_getKeys(self, table, query, callback) ==
    LET params == querystring_stringify(Obj(<< <<"sysparm_action", Str("getKeys")>>,
                                               <<"sysparm_query", query>> >>))
    IN  << HttpCall(self, "GET", BaseUrl(self, table), params, Undefined, callback) >>

Client_get(self, table, sysid, callback, displayValue, displayVariables) ==
    LET params == querystring_stringify(Obj(<< <<"sysparm_action", Str("get")>>,
                                               <<"sysparm_sys_id", sysid>>,
                                               <<"displayvalue", Bool(Truthy(displayValue))>>,
                                               <<"displayvariables", Bool(Truthy(displayVariables))>> >>))
    IN  << HttpCall(self, "GET", BaseUrl(self, table), params, Undefined, callback) >>

Client_getRecords(self, table, query, callback, displayValue, displayVariables) ==
    LET params == querystring_stringify(Obj(<< <<"sysparm_action", Str("getRecords")>>,
                                               <<"sysparm_query", query>>,
                                               <<"displayvalue", Bool(Truthy(displayValue))>>,
                                               <<"displayvariables", Bool(Truthy(displayVariables))>> >>))
    IN  << HttpCall(self, "GET", BaseUrl(self, table), params, Undefined, callback) >>

\* A variant that posts the update a second time.
Client_update_Twice(self, table, query, object, callback) ==
    LET params == querystring_stringify(Obj(<< <<"sysparm_action", Str("update")>>,
                                               <<"sysparm_query", query>> >>))
        post == HttpCall(self, "POST", BaseUrl(self, table), params, JSONstringify(object), callback)
    IN  << post, post >>

Client_update(self, table, query, object, callback) ==
    LET params == querystring_stringify(Obj(<< <<"sysparm_action", Str("update")>>,
                                               <<"sysparm_query", query>> >>))
    IN  << HttpCall(self, "POST", BaseUrl(self, table), params, JSONstringify(object), callback) >>

Client_insert(self, table, object, callback) ==
    LET params == querystring_stringify(Obj(<< <<"sysparm_action", Str("insert")>> >>))
    IN  << HttpCall(self, "POST", BaseUrl(self, table), params, JSONstringify(object), callback) >>

\* A variant that names the action delete, as the example of the doc comment does.
Client_deleteRecord_AsDelete(self, table, object, callback) ==
    LET sysid == IF TypeOf(object) = "object" THEN Get(object, "sys_id") ELSE object
        params == querystring_stringify(Obj(<< <<"sysparm_action", Str("delete")>> >>))
    IN  << HttpCall(self, "POST", BaseUrl(self, table), params,
                    JSONstringify(Obj(<< <<"sysparm_sys_id", sysid>> >>)), callback) >>

\* A variant that does not take the sys_id out of a record object.
Client_deleteRecord_NoExtract(self, table, object, callback) ==
    LET sysid == object
        params == querystring_stringify(Obj(<< <<"sysparm_action", Str("deleteRecord")>> >>))
    IN  << HttpCall(self, "POST", BaseUrl(self, table), params,
                    JSONstringify(Obj(<< <<"sysparm_sys_id", sysid>> >>)), callback) >>

\* object is a string or a record object (never null, whose sys_id cannot
\* be read).
Client_deleteRecord(self, table, object, callback) ==
    LET sysid == IF TypeOf(object) = "object" THEN Get(object, "sys_id") ELSE object
        params == querystring_stringify(Obj(<< <<"sysparm_action", Str("deleteRecord")>> >>))
    IN  << HttpCall(self, "POST", BaseUrl(self, table), params,
                    JSONstringify(Obj(<< <<"sysparm_sys_id", sysid>> >>)), callback) >>

Client_deleteMultiple(self, table, query, callback) ==
    LET params == querystring_stringify(Obj(<< <<"sysparm_action", Str("deleteMultiple")>>,
                                               <<"sysparm_query", query>> >>))
    IN  << HttpCall(self, "GET", BaseUrl(self, table), params, Undefined, callback) >>

---------------------------------------------------------------------------
(* Inputs.                                                                 *)

Configs == { [instance |-> "https://demo.servicenow.com", username |-> "admin", password |-> "admin"] }

ActiveTrue == Text(<<"A", "c", "t", "i", "v", "e", "=", "t", "r", "u", "e">>)

StateOrNumber == Text(<<"s", "=", "1", "^", "n", "=", "a", " ", "b">>)

Abc123 == Text(<<"a", "b", "c", "1", "2", "3">>)

\* The outcomes of an HTTP exchange: what the transport hands to its
\* callback.
Exchanged(err, response, body) == [err |-> err, response |-> response, body |-> body]

\* The transport failed: an Error, and usually neither response nor body.
TransportFailures ==
    { Exchanged(Err(c), Undefined, Undefined) : c \in {"ECONNREFUSED", "ETIMEDOUT"} }
    \cup { Exchanged(Err("ECONNRESET"), Response(st), Str(b)) :
             st \in {200, 500}, b \in {"", JsonText[Records(<<GoodRecord>>)]} }

\* A response whose status is not 200.
HttpFailures ==
    { Exchanged(Null, Response(st), Str(b)) :
        st \in {404, 500},
        b \in {"", "server exploded", JsonText[Obj(<< <<"error", ErrorObject>> >>)]} }

\* A response with status 200.
HttpOk ==
    { Exchanged(Null, Response(200), Str(b)) :
        b \in {JsonText[v] : v \in JsonDocs} \cup MalformedTexts }

AllOutcomes == TransportFailures \cup HttpFailures \cup HttpOk

\* One outcome of each kind.
FewOutcomes ==
    { Exchanged(Err("ECONNREFUSED"), Undefined, Undefined),
      Exchanged(Null, Response(500), Str("server exploded")),
      Exchanged(Null, Response(200), Str(JsonText[Obj(<< <<"error", ErrorObject>> >>)])),
      Exchanged(Null, Response(200), Str(JsonText[Records(<<GoodRecord>>)])) }

\* The inputs of the behaviours of Spec: many arguments, few outcomes.
Requests ==
    [ maxCalls |-> MaxCalls,
      tables |-> {"incident"},
      queries |-> {StateOrNumber},
      sysids |-> {Abc123},
      display |-> {<<Undefined, Undefined>>, <<Bool(FALSE), Str("yes")>>},
      objects |-> {GoodRecord, Records(<<GoodRecord, StoredRecord>>)},
      targets |-> {Str("abc123"), Obj(<< <<"sys_id", Str("abc123")>> >>), StoredRecord,
                   Str("def456"), GoodRecord},
      outcomes |-> FewOutcomes ]

\* The inputs of the behaviours of SpecResponses: few arguments, every
\* outcome.
Responses ==
    [ maxCalls |-> MaxResponseCalls,
      tables |-> {"incident"},
      queries |-> {ActiveTrue},
      sysids |-> {Abc123},
      display |-> {<<Undefined, Undefined>>},
      objects |-> {GoodRecord},
      targets |-> {StoredRecord},
      outcomes |-> AllOutcomes ]

---------------------------------------------------------------------------
(* The state machine.                                                      *)
(*                                                                         *)
(* client     the Client object                                            *)
(* calls      the method invocations made so far; invocation n passes the  *)
(*            completion handler n                                         *)
(* transport  the HTTP calls handed to the transport, each with the        *)
(*            invocation that made it, pending or done with its outcome    *)
(* received   for each completion handler, the (error, result) pairs it    *)
(*            was invoked with, in order                                   *)

Init ==
    /\ client \in {Client(config) : config \in Configs}
    /\ calls = <<>>
    /\ transport = <<>>
    /\ received = <<>>

\* A call in the hands of the transport.
Pending(call, request) ==
    [ call |-> call, request |-> request, state |-> "pending",
      err |-> Undefined, response |-> Undefined, body |-> Undefined,
      thrown |-> Undefined, parses |-> 0 ]

\* A method invocation: it makes its transport calls and returns.
Invoke(method, args, requests) ==
    /\ calls' = Append(calls, [method |-> method, args |-> args])
    /\ transport' = transport \o [i \in 1..Len(requests) |-> Pending(Len(calls) + 1, requests[i])]
    /\ received' = Append(received, <<>>)
    /\ UNCHANGED client

getKeys(In) ==
    /\ Len(calls) < In.maxCalls
    /\ \E table \in In.tables, query \in In.queries :
          Invoke("getKeys", <<table, query>>,
                 Client_getKeys(client, table, query, Len(calls) + 1))

get(In) ==
    /\ Len(calls) < In.maxCalls
    /\ \E table \in In.tables, sysid \in In.sysids, d \in In.display :
          Invoke("get", <<table, sysid, d[1], d[2]>>,
                 Client_get(client, table, sysid, Len(calls) + 1, d[1], d[2]))

getRecords(In) ==
    /\ Len(calls) < In.maxCalls
    /\ \E table \in In.tables, query \in In.queries, d \in In.display :
          Invoke("getRecords", <<table, query, d[1], d[2]>>,
                 Client_getRecords(client, table, query, Len(calls) + 1, d[1], d[2]))

update(In) ==
    /\ Len(calls) < In.maxCalls
    /\ \E table \in In.tables, query \in In.queries, object \in In.objects :
          Invoke("update", <<table, query, object>>,
                 Client_update(client, table, query, object, Len(calls) + 1))

insert(In) ==
    /\ Len(calls) < In.maxCalls
    /\ \E table \in In.tables, object \in In.objects :
          Invoke("insert", <<table, object>>,
                 Client_insert(client, table, object, Len(calls) + 1))

deleteRecord(In) ==
    /\ Len(calls) < In.maxCalls
    /\ \E table \in In.tables, object \in In.targets :
          Invoke("deleteRecord", <<table, object>>,
                 Client_deleteRecord(client, table, object, Len(calls) + 1))

deleteMultiple(In) ==
    /\ Len(calls) < In.maxCalls
    /\ \E table \in In.tables, query \in In.queries :
          Invoke("deleteMultiple", <<table, query>>,
                 Client_deleteMultiple(client, table, query, Len(calls) + 1))

\* A variant in which the methods keep the callback in one slot shared by
\* all calls: every closure reads the handler of the latest call.
CapturedCallback_Shared(tr, i) == tr[Len(tr)].request.callback

\* The completion handler the closure of transport call i holds: each
\* method passes the transport a closure over its own callback parameter.
CapturedCallback(tr, i) == tr[i].request.callback

\* The transport completes one pending call, in any order, and runs the
\* closure it was given: restCallbackHandler(err,response,body,callback).
\* An exception that escapes the closure is recorded with the call.
Complete(In) ==
    \E i \in DOMAIN transport, o \in In.outcomes :
       /\ transport[i].state = "pending"
       /\ LET callback == CapturedCallback(transport, i)
              r == restCallbackHandler(o.err, o.response, o.body, callback)
          IN  /\ transport' = [transport EXCEPT ![i] =
                     [@ EXCEPT !.state = "done", !.err = o.err, !.response = o.response,
                               !.body = o.body, !.thrown = r.thrown, !.parses = r.parses]]
              /\ received' = [received EXCEPT ![callback] = @ \o r.invocations]
       /\ UNCHANGED <<client, calls>>

Next ==
    \/ getKeys(Requests)
    \/ get(Requests)
    \/ getRecords(Requests)
    \/ update(Requests)
    \/ insert(Requests)
    \/ deleteRecord(Requests)
    \/ deleteMultiple(Requests)
    \/ Complete(Requests)

Spec == Init /\ [][Next]_vars

NextResponses ==
    \/ getKeys(Responses)
    \/ get(Responses)
    \/ getRecords(Responses)
    \/ update(Responses)
    \/ insert(Responses)
    \/ deleteRecord(Responses)
    \/ deleteMultiple(Responses)
    \/ Complete(Responses)

SpecResponses == Init /\ [][NextResponses]_vars

---------------------------------------------------------------------------
(* Properties.                                                             *)

Done(i) == transport[i].state = "done"

\* The transport calls invocation n made.
IssuedBy(n) == {i \in DOMAIN transport : transport[i].call = n}

\* What the completion handler of the invocation behind transport call i
\* has received.
ReceivedFor(i) == received[transport[i].call]

\* A value that is neither null nor undefined.
Populated(v) == v.t \notin {"undefined", "null"}

\* The transport reported no error and a status.
Answered(i) == Done(i) /\ transport[i].err = Null /\ transport[i].response.t = "response"

\* The body of call i is the text of a JSON document.
Parses(i) == JSONparse(transport[i].body).ok

Parsed(i) == JSONparse(transport[i].body).value

\* The per-record error markers of a parsed body: the __error member of
\* each entry of its records array that has one.
Markers(o) ==
    IF o.t = "object" /\ Get(o, "records").t = "array"
    THEN LET rs == Get(o, "records").a
             marked == SelectSeq(rs, LAMBDA r : r.t = "object" /\ Members(r, "__error") # <<>>)
         IN  [k \in 1..Len(marked) |-> Get(marked[k], "__error")]
    ELSE <<>>

\* C1: for every outcome of an exchange, the completion handler receives
\* either (error, undefined) with error populated or (null, result) with
\* result populated.
C1_ErrorOrResult ==
    \A i \in DOMAIN transport :
       Done(i) =>
          /\ Len(ReceivedFor(i)) = 1
          /\ \/ Populated(ReceivedFor(i)[1].error) /\ ReceivedFor(i)[1].result = Undefined
             \/ ReceivedFor(i)[1].error = Null /\ Populated(ReceivedFor(i)[1].result)

\* C2: with no transport error and a status other than 200, the handler
\* receives the raw body as error and no result, and the body is not
\* parsed, whatever the body is.
C2_RawBodyOnStatus ==
    \A i \in DOMAIN transport :
       (Answered(i) /\ transport[i].response.statusCode # HTTP_OK) =>
          /\ ReceivedFor(i) = <<Invocation(transport[i].call, transport[i].body, Undefined)>>
          /\ transport[i].parses = 0
          /\ transport[i].thrown = Undefined

\* C3: with a transport error, the handler receives that error and no
\* result; the response is not read and the body is not parsed, whatever
\* they are.
C3_TransportErrorFirst ==
    \A i \in DOMAIN transport :
       (Done(i) /\ transport[i].err.t = "Error") =>
          /\ ReceivedFor(i) = <<Invocation(transport[i].call, transport[i].err, Undefined)>>
          /\ transport[i].parses = 0
          /\ transport[i].thrown = Undefined

\* A transport error has been delivered with response and body absent.
C3_Witness ==
    \E i \in DOMAIN transport :
       /\ Done(i) /\ transport[i].err.t = "Error"
       /\ transport[i].response = Undefined /\ transport[i].body = Undefined
       /\ Len(ReceivedFor(i)) = 1

\* C4: for a 200 response whose parsed body has no error field and whose
\* records hold at least one __error marker, the handler receives the array
\* of exactly those markers as error and no result.
C4_RecordErrors ==
    \A i \in DOMAIN transport :
       (/\ Answered(i) /\ transport[i].response.statusCode = HTTP_OK
        /\ Parses(i) /\ Parsed(i).t = "object"
        /\ Members(Parsed(i), "error") = <<>>
        /\ Markers(Parsed(i)) # <<>>) =>
          ReceivedFor(i) = <<Invocation(transport[i].call, Arr(Markers(Parsed(i))), Undefined)>>

\* The parsed body is a value (not JSON null) that carries neither a
\* service error (an error member that is set) nor a record marker.
Clean(o) == Populated(o) /\ ~Truthy(Get(o, "error")) /\ Markers(o) = <<>>

\* C5: for a 200 response with no transport error whose parsed body
\* carries neither a service error nor a per-record marker, the handler
\* receives (null, parsed body); and a result is delivered in that case
\* only.
C5_ResultIffClean ==
    \A i \in DOMAIN transport :
       /\ (/\ Answered(i) /\ transport[i].response.statusCode = HTTP_OK
           /\ Parses(i) /\ Clean(Parsed(i))) =>
             ReceivedFor(i) = <<Invocation(transport[i].call, Null, Parsed(i))>>
       /\ (Done(i) /\ \E k \in DOMAIN ReceivedFor(i) : ReceivedFor(i)[k].result # Undefined) =>
             /\ Answered(i) /\ transport[i].response.statusCode = HTTP_OK
             /\ Parses(i) /\ Clean(Parsed(i))

\* C6: every invocation has made exactly one transport call, before and
\* after that call completes, whatever its outcome.
C6_OneCallPerInvocation ==
    \A n \in DOMAIN calls : Cardinality(IssuedBy(n)) = 1

\* Two invocations are done, one with a transport error and one with a
\* result delivered.
C6_Witness ==
    \E i, j \in DOMAIN transport :
       /\ Done(i) /\ transport[i].err.t = "Error"
       /\ Done(j) /\ Len(ReceivedFor(j)) = 1 /\ ReceivedFor(j)[1].result # Undefined

\* The values the query string of a request gives to key.
ParamValues(request, key) ==
    LET hit == SelectSeq(request.query, LAMBDA p : p[1] = key)
    IN  [k \in 1..Len(hit) |-> hit[k][2]]

\* C7: the request of each method carries sysparm_action equal to the
\* method's name (in its parameters and, first, in the text of its url);
\* getKeys, get, getRecords and deleteMultiple issue GET with no body;
\* update, insert and deleteRecord issue POST with a JSON text as body,
\* for update and insert the text of the object passed.
C7_ActionAndVerb ==
    \A i \in DOMAIN transport :
       LET c == calls[transport[i].call]
           q == transport[i].request
           rest == IF Len(q.query) = 1 THEN "" ELSE "&" \o QueryText(Tail(q.query))
       IN  /\ ParamValues(q, "sysparm_action") = <<c.method>>
           /\ q.url = client.instance \o "/" \o c.args[1] \o ".do?JSONv2=&sysparm_action="
                      \o c.method \o rest
           /\ c.method \in {"getKeys", "get", "getRecords", "deleteMultiple"} =>
                 q.verb = "GET" /\ q.body = Undefined
           /\ c.method \in {"update", "insert", "deleteRecord"} =>
                 q.verb = "POST" /\ q.body.t = "string" /\ JSONparse(q.body).ok
           /\ c.method = "update" => JSONparse(q.body).value = c.args[3]
           /\ c.method = "insert" => JSONparse(q.body).value = c.args[2]
           /\ c.method \in {"getKeys", "get", "getRecords", "deleteMultiple",
                            "update", "insert", "deleteRecord"}

\* A GET method and a POST method have both been invoked.
C7_Witness ==
    \E i, j \in DOMAIN transport :
       /\ calls[transport[i].call].method = "deleteMultiple"
       /\ calls[transport[j].call].method = "deleteRecord"

\* The body deleteRecord is to send for identifier s.
SysIdBody(s) == Str("{\"sysparm_sys_id\":\"" \o s \o "\"}")

\* C8: deleteRecord with the string s, and deleteRecord with any record
\* whose sys_id is s, send the same body, {"sysparm_sys_id":s}, with no
\* other field of the record.
C8_DeleteRecordBody ==
    \A i, j \in DOMAIN transport :
       LET a == calls[transport[i].call]
           b == calls[transport[j].call]
       IN  (/\ a.method = "deleteRecord" /\ b.method = "deleteRecord"
            /\ a.args[2].t = "string"
            /\ b.args[2].t = "object"
            /\ Get(b.args[2], "sys_id") = a.args[2]) =>
              /\ transport[i].request.body = transport[j].request.body
              /\ transport[i].request.body = SysIdBody(a.args[2].s)

\* deleteRecord has been called with "abc123" and with a record of two
\* fields whose sys_id is "abc123".
C8_Witness ==
    \E i, j \in DOMAIN transport :
       /\ calls[transport[i].call] = [method |-> "deleteRecord", args |-> <<"incident", Str("abc123")>>]
       /\ calls[transport[j].call] = [method |-> "deleteRecord", args |-> <<"incident", StoredRecord>>]

\* Every handler has received what restCallbackHandler makes of the
\* outcome of its own invocation's exchange, and nothing before that
\* exchange is done.
OwnOutcomeOnly ==
    \A n \in DOMAIN calls :
       \A i \in IssuedBy(n) :
          received[n] =
             IF Done(i)
             THEN restCallbackHandler(transport[i].err, transport[i].response,
                                      transport[i].body, n).invocations
             ELSE <<>>

\* C9: with several calls in flight, completed in any order, each handler
\* receives the result of its own exchange only, and no step changes the
\* Client (instance, config, transport defaults).
C9_IndependentCalls == [](OwnOutcomeOnly) /\ [][client' = client]_vars

\* Two calls were in flight together; the later one is done with a
\* result, the earlier one is done with an error.
C9_Witness ==
    /\ Len(transport) = 2
    /\ Done(1) /\ Done(2)
    /\ Len(received[1]) = 1 /\ received[1][1].error # Null
    /\ Len(received[2]) = 1 /\ received[2][1].error = Null

\* C10: a completion handler is invoked at most once, and only when the
\* exchange of its invocation is done.
C10_AtMostOnce ==
    \A n \in DOMAIN calls :
       /\ Len(received[n]) <= 1
       /\ received[n] # <<>> => \E i \in IssuedBy(n) : Done(i)

\* An error has been delivered for an exchange whose body is a JSON text.
C10_Witness ==
    \E i \in DOMAIN transport :
       /\ Done(i) /\ Parses(i)
       /\ Len(ReceivedFor(i)) = 1
       /\ ReceivedFor(i)[1].error # Null

====
